---- MODULE Spec2Model ----
(***************************************************************************)
(* Model of pennylane/_qubit_device.py : the QubitDevice abstract base     *)
(* class.  Vectors and arrays are TLA+ sequences; Python index i is        *)
(* sequence position i + 1.  Wires are numbered 0 .. num_wires - 1 as in   *)
(* the source.  Probabilities are integer weights over the common          *)
(* denominator ProbDenom; ratios are pairs <<numerator, denominator>>.     *)
(***************************************************************************)
EXTENDS Integers, Sequences, FiniteSets, TLC

VARIABLES
    num_wires,      \* Device.num_wires, set by __init__(wires=...)
    shots,          \* Device.shots
    analytic,       \* QubitDevice.analytic
    samples,        \* QubitDevice._samples : None or array of rows of bits
    circuit_hash,   \* QubitDevice._circuit_hash : None or a hash
    state_prob,     \* backend state left by apply(): full probability vector
    pc,             \* position inside execute(): "idle" when no call is active
    circuit,        \* the circuit argument of the running execute()
    calls,          \* methods invoked by the current / last execute(), in order
    outcome,        \* how the last execute() ended: value returned or error raised
    call,           \* last utility-method invocation (method and arguments)
    ret             \* value returned by that invocation

vars == << num_wires, shots, analytic, samples, circuit_hash, state_prob,
           pc, circuit, calls, outcome, call, ret >>

devvars == << num_wires, shots, analytic, samples, circuit_hash, state_prob >>

exevars == << pc, circuit, calls, outcome >>

----------------------------------------------------------------------------
(* Bounds of the model *)

MaxWires == 3

MaxShots == 2

MaxRows == 2

MaxObs == 2

MaxHash == 2

ProbDenom == 2

\* Python's None and a present value, for fields and arguments that may be None
None == << >>

Some(x) == << x >>

----------------------------------------------------------------------------
(* Arithmetic and array helpers (numpy / itertools semantics) *)

RECURSIVE Pow2(_)
Pow2(n) == IF n = 0 THEN 1 ELSE 2 * Pow2(n - 1)

RECURSIVE SumSeq(_)
SumSeq(s) == IF s = << >> THEN 0 ELSE Head(s) + SumSeq(Tail(s))

Reverse(s) == [ j \in 1..Len(s) |-> s[Len(s) + 1 - j] ]

Range(s) == { s[j] : j \in 1..Len(s) }

\* a & b on non-negative integers
RECURSIVE BitAnd(_, _)
BitAnd(a, b) ==
    IF a = 0 \/ b = 0 THEN 0
    ELSE (a % 2) * (b % 2) + 2 * BitAnd(a \div 2, b \div 2)

\* np.ravel_multi_index(bits, [2] * len(bits)) for one column of bits
RECURSIVE ravel_multi_index(_)
ravel_multi_index(bits) ==
    IF bits = << >> THEN 0
    ELSE 2 * ravel_multi_index(SubSeq(bits, 1, Len(bits) - 1)) + bits[Len(bits)]

\* row i of np.array(list(itertools.product([0, 1], repeat=k)))
product_row(i, k) == [ j \in 1..k |-> (i \div Pow2(k - j)) % 2 ]

\* np.argsort(x) for a sequence of distinct integers : 0-based positions
argsort(x) ==
    [ j \in 1..Len(x) |->
        (CHOOSE p \in 1..Len(x) :
            Cardinality({ q \in 1..Len(x) : x[q] < x[p] }) = j - 1) - 1 ]

\* fancy indexing row[idx] with 0-based idx
take(row, idx) == [ j \in 1..Len(idx) |-> row[idx[j] + 1] ]

----------------------------------------------------------------------------
(* QubitDevice.states_to_binary *)

\* states_to_binary without the comparison `> 0` : the masked values themselves
states_to_binary_row_raw(s, n) ==
    Reverse([ m \in 1..n |-> BitAnd(s, Pow2(m - 1)) ])

\* states_to_binary without the final column reversal `[:, ::-1]`
states_to_binary_row_le(s, n) ==
    [ m \in 1..n |-> IF BitAnd(s, Pow2(m - 1)) > 0 THEN 1 ELSE 0 ]

\* one row of states_to_binary(samples, num_wires), for the basis state s
states_to_binary_row(s, n) ==
    LET powers_of_two == [ m \in 1..n |-> Pow2(m - 1) ]
        states_sampled_base_ten == [ m \in 1..n |-> BitAnd(s, powers_of_two[m]) ]
        bits == [ m \in 1..n |-> IF states_sampled_base_ten[m] > 0 THEN 1 ELSE 0 ]
    IN  Reverse(bits)

states_to_binary(smp, n) == [ t \in 1..Len(smp) |-> states_to_binary_row(smp[t], n) ]

----------------------------------------------------------------------------
(* QubitDevice.marginal_prob *)

BitTuples(n) == [ 1..n -> {0, 1} ]

\* prob.reshape([2] * n) : a tensor indexed by one bit per wire
reshape(prob, n) == [ b \in BitTuples(n) |-> prob[ravel_multi_index(b) + 1] ]

\* np.sum over one axis (wire w), keeping the axis with size one
sum_axis(T, w) ==
    [ b \in { c \in DOMAIN T : c[w + 1] = 0 } |->
        T[b] + T[[b EXCEPT ![w + 1] = 1]] ]

\* np.apply_over_axes(np.sum, T, axes)
RECURSIVE apply_over_axes(_, _)
apply_over_axes(T, axes) ==
    IF axes = {} THEN T
    ELSE LET w == CHOOSE a \in axes : \A c \in axes : a <= c
         IN  apply_over_axes(sum_axis(T, w), axes \ {w})

\* .flatten() of a tensor whose axes outside `active` have size one
flatten(T, n, active) ==
    LET k == Cardinality(active)
        pos(w) == Cardinality({ v \in active : v <= w })
    IN  [ m \in 1..Pow2(k) |->
            T[[ a \in 1..n |->
                  IF (a - 1) \in active THEN product_row(m - 1, k)[pos(a - 1)]
                  ELSE 0 ]] ]

\* the index permutation computed at the end of marginal_prob
marginal_perm(wires) ==
    LET k == Len(wires)
        order == argsort(argsort(wires))
    IN  [ i \in 1..Pow2(k) |-> ravel_multi_index(take(product_row(i - 1, k), order)) ]

\* `wires` is None or Some(sequence of wires); n is self.num_wires
marginal_prob(prob, wires, n) ==
    IF wires = None THEN prob
    ELSE LET w == wires[1]
             inactive_wires == (0..(n - 1)) \ Range(w)
             summed == flatten(apply_over_axes(reshape(prob, n), inactive_wires),
                               n, Range(w))
             perm == marginal_perm(w)
         IN  [ i \in 1..Len(perm) |-> summed[perm[i] + 1] ]

----------------------------------------------------------------------------
(* Sampling : sample_basis_states, generate_samples *)

\* self.analytic_probability(wires) of a concrete exact backend : the
\* marginal of the probability vector that apply() left behind
analytic_probability(wires) == marginal_prob(state_prob, wires, num_wires)

\* np.random.choice(np.arange(number_of_states), self.shots, p=state_probability) :
\* every outcome the random draw can produce
sample_basis_states(number_of_states, state_probability) ==
    { d \in [ 1..shots -> 0..(number_of_states - 1) ] :
        \A t \in 1..shots : state_probability[d[t] + 1] > 0 }

\* every array the default generate_samples() can return
generate_samples ==
    LET number_of_states == Pow2(num_wires)
        rotated_prob == analytic_probability(None)
    IN  { states_to_binary(d, num_wires) :
            d \in sample_basis_states(number_of_states, rotated_prob) }

----------------------------------------------------------------------------
(* Observables and their statistics *)

\* Observable.return_type tags; NoReturnType models return_type = None
Expectation == "Expectation"

Variance == "Variance"

Sample == "Sample"

Probability == "Probability"

NoReturnType == "NoReturnType"

\* QubitDevice.observables : the observables the device supports
observables == { "PauliX", "PauliY", "PauliZ", "Hadamard", "Hermitian", "Identity" }

PauliNames == { "PauliX", "PauliY", "PauliZ", "Hadamard" }

\* Device.translate : observables carry device wire indices already
translate(wires) == wires

Dot(a, b) == SumSeq([ j \in 1..Len(a) |-> a[j] * b[j] ])

\* estimate_probability normalising by the number of stored rows
estimate_probability_by_rows(smp, wires) ==
    [ i \in 1..Pow2(Len(wires)) |->
        << Cardinality({ t \in 1..Len(smp) :
                           ravel_multi_index(take(smp[t], wires)) = i - 1 }),
           Len(smp) >> ]

\* estimate_probability(wires) on the stored array smp
estimate_probability(smp, wires) ==
    LET sel == [ t \in 1..Len(smp) |-> take(smp[t], wires) ]
        indices == [ t \in 1..Len(smp) |-> ravel_multi_index(sel[t]) ]
        counts(i) == Cardinality({ t \in 1..Len(smp) : indices[t] = i })
    IN  [ i \in 1..Pow2(Len(wires)) |-> << counts(i - 1), shots >> ]

\* probability(wires) : numerators and denominator of each entry
probability(wires) ==
    LET w == IF wires = << >> THEN [ j \in 1..num_wires |-> j - 1 ] ELSE wires
    IN  IF analytic
        THEN LET p == analytic_probability(Some(w))
             IN  [ i \in 1..Len(p) |-> << p[i], ProbDenom >> ]
        ELSE estimate_probability(samples[1], w)

\* sample with the Pauli eigenvalues swapped : 2b - 1 instead of 1 - 2b
sample_flipped(smp, observable) ==
    IF observable.name \in PauliNames
    THEN [ t \in 1..Len(smp) |-> 2 * smp[t][observable.wires[1] + 1] - 1 ]
    ELSE [ t \in 1..Len(smp) |->
             observable.eigvals[ravel_multi_index(take(smp[t], observable.wires)) + 1] ]

\* sample(observable) on the stored array smp : one eigenvalue per row
sample(smp, observable) ==
    LET wires == translate(observable.wires)
    IN  IF observable.name \in PauliNames
        THEN [ t \in 1..Len(smp) |-> 1 - 2 * smp[t][wires[1] + 1] ]
        ELSE LET sel == [ t \in 1..Len(smp) |-> take(smp[t], wires) ]
                 indices == [ t \in 1..Len(smp) |-> ravel_multi_index(sel[t]) ]
             IN  [ t \in 1..Len(smp) |-> observable.eigvals[indices[t] + 1] ]

expval(observable) ==
    LET wires == translate(observable.wires)
    IN  IF analytic
        THEN LET prob == probability(wires)
             IN  << Dot(observable.eigvals, [ i \in 1..Len(prob) |-> prob[i][1] ]),
                    ProbDenom >>
        ELSE LET s == sample(samples[1], observable)
             IN  << SumSeq(s), Len(s) >>

var(observable) ==
    LET wires == translate(observable.wires)
        sq(x) == [ j \in 1..Len(x) |-> x[j] * x[j] ]
    IN  IF analytic
        THEN LET prob == probability(wires)
                 p == [ i \in 1..Len(prob) |-> prob[i][1] ]
                 e == observable.eigvals
             IN  << ProbDenom * Dot(sq(e), p) - Dot(e, p) * Dot(e, p),
                    ProbDenom * ProbDenom >>
        ELSE LET s == sample(samples[1], observable)
             IN  << Len(s) * SumSeq(sq(s)) - SumSeq(s) * SumSeq(s), Len(s) * Len(s) >>

\* the statistic a supported return type appends to the results
statistic(obs) ==
    IF obs.return_type = Expectation THEN expval(obs)
    ELSE IF obs.return_type = Variance THEN var(obs)
    ELSE IF obs.return_type = Sample THEN sample(samples[1], obs)
    ELSE probability(translate(obs.wires))

\* the statistic of obs indexes self._samples
reads_samples(obs) == obs.return_type = Sample \/ ~analytic

\* statistics that skips every unrecognised return type instead of raising
RECURSIVE statistics_skipping(_, _, _)
statistics_skipping(obsv, i, acc) ==
    IF i > Len(obsv) THEN [ kind |-> "return", results |-> acc ]
    ELSE LET obs == obsv[i]
         IN  IF obs.return_type \in { Expectation, Variance, Sample, Probability }
             THEN IF reads_samples(obs) /\ samples = None
                  THEN [ kind |-> "raise", error |-> "TypeError", name |-> obs.name ]
                  ELSE statistics_skipping(obsv, i + 1,
                          Append(acc, [ obs |-> i, return_type |-> obs.return_type,
                                        value |-> statistic(obs) ]))
             ELSE statistics_skipping(obsv, i + 1, acc)

\* statistics(observables) : the loop from observable i on, results so far in
\* acc.  A statistic that indexes self._samples while it is None raises a
\* TypeError; `name` is the observable at which the loop stopped.
RECURSIVE statistics_from(_, _, _)
statistics_from(obsv, i, acc) ==
    IF i > Len(obsv) THEN [ kind |-> "return", results |-> acc ]
    ELSE LET obs == obsv[i]
         IN  IF obs.return_type \in { Expectation, Variance, Sample, Probability }
             THEN IF reads_samples(obs) /\ samples = None
                  THEN [ kind |-> "raise", error |-> "TypeError", name |-> obs.name ]
                  ELSE statistics_from(obsv, i + 1,
                          Append(acc, [ obs |-> i, return_type |-> obs.return_type,
                                        value |-> statistic(obs) ]))
             ELSE IF obs.return_type # NoReturnType
                  THEN [ kind |-> "raise", error |-> "QuantumFunctionError",
                         name |-> obs.name ]
                  ELSE statistics_from(obsv, i + 1, acc)

statistics(obsv) == statistics_from(obsv, 1, << >>)

----------------------------------------------------------------------------
(* Input domains *)

\* sequences of k distinct wires of an n-wire device, in any order
WireSeqs(n) ==
    UNION { { w \in [ 1..k -> 0..(n - 1) ] :
                \A p, q \in 1..k : p # q => w[p] # w[q] } : k \in 1..n }

\* probability vectors of length 2^n : weights summing to ProbDenom
WeightsOn(states, n) ==
    { [ s \in 1..Pow2(n) |-> Cardinality({ d \in 1..ProbDenom : f[d] = s }) ] :
        f \in [ 1..ProbDenom -> states ] }

ProbVectors(n) == WeightsOn(1..Pow2(n), n)

\* probability vectors a backend's apply() may leave : the state 0 for
\* certain, or the states 1 and 2^n - 1 with weights 1 and ProbDenom - 1
BackendStates(n) ==
    { [ s \in 1..Pow2(n) |-> IF s = 1 THEN ProbDenom ELSE 0 ],
      [ s \in 1..Pow2(n) |-> (IF s = 2 THEN 1 ELSE 0)
                              + (IF s = Pow2(n) THEN ProbDenom - 1 ELSE 0) ] }

\* circuit hashes
Hashes == 1..MaxHash

\* observables a circuit on an n-wire device may measure : every return
\* type, a missing one, two unsupported ones, and an unsupported observable
ObservableChoices(n) ==
    LET last == n - 1
        pair == IF n > 1 THEN << last, 0 >> ELSE << 0 >>
    IN  { [ name |-> "PauliZ", wires |-> << 0 >>, return_type |-> Expectation,
            eigvals |-> << 1, -1 >> ],
          [ name |-> "PauliX", wires |-> << last >>, return_type |-> Variance,
            eigvals |-> << 1, -1 >> ],
          [ name |-> "Hermitian", wires |-> pair, return_type |-> Sample,
            eigvals |-> IF n > 1 THEN << 3, 1, -1, -2 >> ELSE << 2, -1 >> ],
          [ name |-> "Identity", wires |-> pair, return_type |-> Probability,
            eigvals |-> IF n > 1 THEN << 1, 1, 1, 1 >> ELSE << 1, 1 >> ],
          [ name |-> "PauliY", wires |-> << 0 >>, return_type |-> NoReturnType,
            eigvals |-> << 1, -1 >> ],
          [ name |-> "Hadamard", wires |-> << 0 >>, return_type |-> "State",
            eigvals |-> << 1, -1 >> ],
          [ name |-> "QubitUnitary", wires |-> << 0 >>, return_type |-> "Counts",
            eigvals |-> << 1, -1 >> ],
          [ name |-> "Kerr", wires |-> << 0 >>, return_type |-> Expectation,
            eigvals |-> << 1, -1 >> ] }

\* CircuitGraph.is_sampled : some observable requests raw samples
is_sampled(obsv) == \E j \in 1..Len(obsv) : obsv[j].return_type = Sample

ObservableLists(choices) == UNION { [ 1..m -> choices ] : m \in 0..MaxObs }

\* circuits handed to execute() : an expectation, a sample, an unsupported
\* return type and an unsupported observable, in every combination
Circuits(n) ==
    { [ hash |-> h, observables |-> o, is_sampled |-> is_sampled(o) ] :
        h \in Hashes,
        o \in ObservableLists({ b \in ObservableChoices(n) :
                 b.name \in { "PauliZ", "Hermitian", "Hadamard", "Kerr" } }) }

\* observable lists handed to statistics() directly
StatisticsInputs(n) ==
    ObservableLists({ b \in ObservableChoices(n) : b.name # "Kerr" })

NoCall == [ method |-> "none" ]

NoOutcome == [ kind |-> "none" ]

----------------------------------------------------------------------------
(* Specification SpecMarginal : marginal_prob called on a device *)

InitMarginal ==
    /\ num_wires \in 1..MaxWires
    /\ shots = 1
    /\ analytic = TRUE
    /\ samples = None
    /\ circuit_hash = None
    /\ state_prob \in ProbVectors(num_wires)
    /\ pc = "idle"
    /\ circuit = None
    /\ calls = << >>
    /\ outcome = NoOutcome
    /\ call = NoCall
    /\ ret = None

CallMarginalProb ==
    /\ call = NoCall
    /\ \E w \in { Some(x) : x \in WireSeqs(num_wires) } \cup {None} :
         /\ call' = [ method |-> "marginal_prob", prob |-> state_prob, wires |-> w ]
         /\ ret' = marginal_prob(state_prob, w, num_wires)
    /\ UNCHANGED << devvars, exevars >>

NextMarginal == CallMarginalProb

SpecMarginal == InitMarginal /\ [][NextMarginal]_vars

----------------------------------------------------------------------------
(* Specification Spec : a device driven by execute() and reset() calls *)

\* QubitDevice.__init__(wires=MaxWires, shots=MaxShots, analytic=...)
Init ==
    /\ num_wires = MaxWires
    /\ shots = MaxShots
    /\ analytic \in BOOLEAN
    /\ samples = None
    /\ circuit_hash = None
    /\ state_prob = [ s \in 1..Pow2(num_wires) |-> IF s = 1 THEN ProbDenom ELSE 0 ]
    /\ pc = "idle"
    /\ circuit = None
    /\ calls = << >>
    /\ outcome = NoOutcome
    /\ call = NoCall
    /\ ret = None

\* Device.check_validity : the observables the device does not support
unsupported(obsv) == { j \in 1..Len(obsv) : obsv[j].name \notin observables }

\* execute(circuit), line 153 : check_validity accepts the circuit
execute_check_validity ==
    /\ pc = "idle"
    /\ \E c \in Circuits(num_wires) :
         /\ unsupported(c.observables) = {}
         /\ circuit' = Some(c)
    /\ calls' = << [ method |-> "check_validity" ] >>
    /\ outcome' = [ kind |-> "running" ]
    /\ pc' = "set_hash"
    /\ UNCHANGED << devvars, call, ret >>

\* execute that stores the circuit's hash before check_validity rejects it
execute_invalid_hash_first ==
    /\ pc = "idle"
    /\ \E c \in Circuits(num_wires) :
         /\ unsupported(c.observables) # {}
         /\ circuit' = Some(c)
         /\ circuit_hash' = Some(c.hash)
         /\ outcome' = [ kind |-> "raise", method |-> "execute",
                         error |-> "DeviceError",
                         name |-> c.observables[CHOOSE j \in unsupported(c.observables) :
                                     \A q \in unsupported(c.observables) : j <= q].name ]
    /\ calls' = << [ method |-> "check_validity" ] >>
    /\ pc' = "idle"
    /\ UNCHANGED << num_wires, shots, analytic, samples, state_prob, call, ret >>

\* execute(circuit), line 153 : check_validity raises, execute ends there
execute_invalid ==
    /\ pc = "idle"
    /\ \E c \in Circuits(num_wires) :
         /\ unsupported(c.observables) # {}
         /\ circuit' = Some(c)
         /\ outcome' = [ kind |-> "raise", method |-> "execute",
                         error |-> "DeviceError",
                         name |-> c.observables[CHOOSE j \in unsupported(c.observables) :
                                     \A q \in unsupported(c.observables) : j <= q].name ]
    /\ calls' = << [ method |-> "check_validity" ] >>
    /\ pc' = "idle"
    /\ UNCHANGED << devvars, call, ret >>

\* execute that stores the hash of the first circuit only
execute_set_hash_once ==
    /\ pc = "set_hash"
    /\ circuit_hash' = IF circuit_hash = None THEN Some(circuit[1].hash)
                       ELSE circuit_hash
    /\ pc' = "apply"
    /\ UNCHANGED << num_wires, shots, analytic, samples, state_prob,
                    circuit, calls, outcome, call, ret >>

\* execute(circuit), line 155
execute_set_hash ==
    /\ pc = "set_hash"
    /\ circuit_hash' = Some(circuit[1].hash)
    /\ pc' = "apply"
    /\ UNCHANGED << num_wires, shots, analytic, samples, state_prob,
                    circuit, calls, outcome, call, ret >>

\* execute(circuit), line 158 : the backend's apply() leaves a probability vector
execute_apply ==
    /\ pc = "apply"
    /\ state_prob' \in BackendStates(num_wires)
    /\ calls' = Append(calls, [ method |-> "apply", hash |-> circuit_hash ])
    /\ pc' = "generate_samples"
    /\ UNCHANGED << num_wires, shots, analytic, samples, circuit_hash,
                    circuit, outcome, call, ret >>

\* execute that samples only when the device is not analytic
execute_generate_samples_not_analytic ==
    /\ pc = "generate_samples"
    /\ IF ~analytic
       THEN \E g \in generate_samples :
              /\ samples' = Some(g)
              /\ calls' = Append(calls, [ method |-> "generate_samples", ret |-> g ])
       ELSE UNCHANGED << samples, calls >>
    /\ pc' = "statistics"
    /\ UNCHANGED << num_wires, shots, analytic, circuit_hash, state_prob,
                    circuit, outcome, call, ret >>

\* execute(circuit), lines 161-162
execute_generate_samples ==
    /\ pc = "generate_samples"
    /\ IF (~analytic) \/ circuit[1].is_sampled
       THEN \E g \in generate_samples :
              /\ samples' = Some(g)
              /\ calls' = Append(calls, [ method |-> "generate_samples", ret |-> g ])
       ELSE UNCHANGED << samples, calls >>
    /\ pc' = "statistics"
    /\ UNCHANGED << num_wires, shots, analytic, circuit_hash, state_prob,
                    circuit, outcome, call, ret >>

\* execute(circuit), lines 165-173
execute_statistics ==
    /\ pc = "statistics"
    /\ LET c == circuit[1]
           results == statistics(c.observables)
           all_sampled == \A j \in 1..Len(c.observables) :
                              c.observables[j].return_type = Sample
       IN  outcome' =
             IF results.kind = "raise"
             THEN [ kind |-> "raise", method |-> "execute",
                    error |-> results.error, name |-> results.name ]
             ELSE [ kind |-> "return", method |-> "execute",
                    results |-> results.results,
                    dtype |-> IF c.is_sampled /\ ~all_sampled
                              THEN "object" ELSE "default" ]
    /\ calls' = Append(calls, [ method |-> "statistics" ])
    /\ pc' = "idle"
    /\ UNCHANGED << devvars, circuit, call, ret >>

\* reset that forgets the hash but keeps the samples
reset_keeps_samples ==
    /\ pc = "idle"
    /\ circuit_hash' = None
    /\ outcome' = [ kind |-> "return", method |-> "reset" ]
    /\ UNCHANGED << num_wires, shots, analytic, samples, state_prob,
                    pc, circuit, calls, call, ret >>

\* reset()
reset ==
    /\ pc = "idle"
    /\ samples' = None
    /\ circuit_hash' = None
    /\ outcome' = [ kind |-> "return", method |-> "reset" ]
    /\ UNCHANGED << num_wires, shots, analytic, state_prob,
                    pc, circuit, calls, call, ret >>

Next ==
    \/ execute_check_validity
    \/ execute_invalid
    \/ execute_set_hash
    \/ execute_apply
    \/ execute_generate_samples
    \/ execute_statistics
    \/ reset

Spec == Init /\ [][Next]_vars

----------------------------------------------------------------------------
(* Specification SpecStatistics : statistics() called on a device that has *)
(* run a circuit (or none)                                                 *)

InitStatistics ==
    /\ num_wires = MaxWires
    /\ shots = MaxShots
    /\ analytic \in BOOLEAN
    /\ state_prob \in BackendStates(num_wires)
    /\ samples \in { None } \cup { Some(g) : g \in generate_samples }
    /\ circuit_hash = None
    /\ pc = "idle"
    /\ circuit = None
    /\ calls = << >>
    /\ outcome = NoOutcome
    /\ call = NoCall
    /\ ret = None

CallStatistics ==
    /\ call = NoCall
    /\ \E o \in StatisticsInputs(num_wires) :
         /\ call' = [ method |-> "statistics", observables |-> o ]
         /\ ret' = statistics(o)
    /\ UNCHANGED << devvars, exevars >>

NextStatistics == CallStatistics

SpecStatistics == InitStatistics /\ [][NextStatistics]_vars

----------------------------------------------------------------------------
(* Specification SpecUtility : estimate_probability and sample called on a *)
(* device that stores an array of samples.  The calls leave the device as  *)
(* it is, so one call per behaviour covers every call.                     *)

\* rows of n bits with no bit, one bit or every bit set
SampleRows(n) ==
    { [ j \in 1..n |-> IF j = w \/ w = n + 1 THEN 1 ELSE 0 ] : w \in 0..(n + 1) }

\* stored arrays of 1 .. MaxRows such rows
SampleArrays(n) == UNION { [ 1..r -> SampleRows(n) ] : r \in 1..MaxRows }

\* eigenvalue table of a k-wire observable : 1, -1, -3, ...
EigvalTable(k) == [ i \in 1..Pow2(k) |-> 3 - 2 * i ]

\* observables handed to sample() : Pauli observables on every wire and
\* Hermitian observables on every wire sequence
SampleInputs(n) ==
    { [ name |-> nm, wires |-> << w >>, return_type |-> Sample,
        eigvals |-> << 1, -1 >> ] : nm \in PauliNames, w \in 0..(n - 1) }
    \cup
    { [ name |-> "Hermitian", wires |-> w, return_type |-> Sample,
        eigvals |-> EigvalTable(Len(w)) ] : w \in WireSeqs(n) }

InitUtility ==
    /\ num_wires = MaxWires
    /\ shots = MaxShots
    /\ analytic = FALSE
    /\ state_prob = [ s \in 1..Pow2(num_wires) |-> IF s = 1 THEN ProbDenom ELSE 0 ]
    /\ samples \in { Some(a) : a \in SampleArrays(num_wires) }
    /\ circuit_hash = None
    /\ pc = "idle"
    /\ circuit = None
    /\ calls = << >>
    /\ outcome = NoOutcome
    /\ call = NoCall
    /\ ret = None

CallEstimateProbability ==
    /\ call = NoCall
    /\ \E w \in WireSeqs(num_wires) :
         /\ call' = [ method |-> "estimate_probability", wires |-> w ]
         /\ ret' = estimate_probability(samples[1], w)
    /\ UNCHANGED << devvars, exevars >>

CallSample ==
    /\ call = NoCall
    /\ \E o \in SampleInputs(num_wires) :
         /\ call' = [ method |-> "sample", observable |-> o ]
         /\ ret' = sample(samples[1], o)
    /\ UNCHANGED << devvars, exevars >>

NextUtility ==
    \/ CallEstimateProbability
    \/ CallSample

SpecUtility == InitUtility /\ [][NextUtility]_vars

----------------------------------------------------------------------------
(* Specification SpecBinary : states_to_binary applied to `shots` sampled  *)
(* basis states of a num_wires device, as generate_samples applies it      *)

InitBinary ==
    /\ num_wires \in 1..MaxWires
    /\ shots \in 1..MaxShots
    /\ analytic = FALSE
    /\ state_prob = [ s \in 1..Pow2(num_wires) |-> IF s = 1 THEN ProbDenom ELSE 0 ]
    /\ samples = None
    /\ circuit_hash = None
    /\ pc = "idle"
    /\ circuit = None
    /\ calls = << >>
    /\ outcome = NoOutcome
    /\ call = NoCall
    /\ ret = None

CallStatesToBinary ==
    /\ call = NoCall
    /\ \E d \in [ 1..shots -> 0..(Pow2(num_wires) - 1) ] :
         /\ call' = [ method |-> "states_to_binary", samples |-> d ]
         /\ ret' = states_to_binary(d, num_wires)
    /\ UNCHANGED << devvars, exevars >>

NextBinary == CallStatesToBinary

SpecBinary == InitBinary /\ [][NextBinary]_vars

----------------------------------------------------------------------------
(* Properties of marginal_prob *)

RECURSIVE SumOver(_, _)
SumOver(S, f) ==
    IF S = {} THEN 0
    ELSE LET x == CHOOSE y \in S : TRUE IN f[x] + SumOver(S \ {x}, f)

\* bit of the full basis state s on wire w of an n-wire device (big-endian)
WireBit(s, w, n) == (s \div Pow2(n - 1 - w)) % 2

\* j-th most significant bit (j = 1 .. k) of the k-bit index i
IndexBit(i, j, k) == (i \div Pow2(k - j)) % 2

BitReverse(i, k) == SumSeq([ j \in 1..k |-> IndexBit(i, j, k) * Pow2(j - 1) ])

IsMarginalCall == call.method = "marginal_prob" /\ call.wires # None

\* C1: marginal_prob(prob, W) has length 2^k and entry i is the sum of prob
\* over the full basis states whose bit on wire W[j] is the j-th most
\* significant bit of i, for every order of the wires W.
C1_MarginalFollowsCallerOrder ==
    IsMarginalCall =>
        LET W == call.wires[1]
            k == Len(W)
        IN  /\ Len(ret) = Pow2(k)
            /\ \A i \in 0..(Pow2(k) - 1) :
                 ret[i + 1] =
                    SumOver({ s \in 0..(Pow2(num_wires) - 1) :
                                \A j \in 1..k :
                                    WireBit(s, W[j], num_wires) = IndexBit(i, j, k) },
                            [ s \in 0..(Pow2(num_wires) - 1) |-> call.prob[s + 1] ])

\* C2: marginal_prob(prob, W)[i] = marginal_prob(prob, reverse(W))[bitreverse(i)]
\* for every ordering W of every wire subset.
C2_ReverseWiresReversesBits ==
    IsMarginalCall =>
        LET W == call.wires[1]
            k == Len(W)
            rev == marginal_prob(call.prob, Some(Reverse(W)), num_wires)
        IN  \A i \in 0..(Pow2(k) - 1) : ret[i + 1] = rev[BitReverse(i, k) + 1]

----------------------------------------------------------------------------
(* Properties of execute() and reset() *)

CallNames == [ j \in 1..Len(calls) |-> calls[j].method ]

ExecuteReturned ==
    pc = "idle" /\ outcome.kind = "return" /\ outcome.method = "execute"

\* execute() got past check_validity and has ended, normally or not
ExecuteEnded ==
    /\ pc = "idle"
    /\ outcome.kind \in { "return", "raise" }
    /\ outcome.method = "execute"
    /\ (outcome.kind = "raise" => outcome.error # "DeviceError")

\* the samples are those returned by generate_samples during the last execute()
SamplesFromThisCall ==
    \E j \in 1..Len(calls) :
        calls[j].method = "generate_samples" /\ samples = Some(calls[j].ret)

ResetReturned == outcome.kind = "return" /\ outcome.method = "reset"

\* C3 as stated: once execute(circuit) has returned, circuit_hash is the
\* circuit's hash and samples is the sample set generated during that call,
\* whatever the analytic flag and the circuit's is_sampled flag.
C3_BothFieldsOverwritten ==
    ExecuteReturned =>
        /\ circuit_hash = Some(circuit[1].hash)
        /\ SamplesFromThisCall

\* C3 amended: once execute(circuit) has returned, circuit_hash is the
\* circuit's hash; samples is the sample set generated during that call when
\* the device is not analytic or the circuit is sampled; an analytic device
\* executing a circuit that is not sampled leaves samples untouched.
C3_HashOverwrittenSamplesWhenSampling ==
    /\ [](ExecuteReturned =>
            /\ circuit_hash = Some(circuit[1].hash)
            /\ ((~analytic) \/ circuit[1].is_sampled => SamplesFromThisCall))
    /\ [][ ((pc # "idle" \/ pc' # "idle") /\ analytic /\ ~circuit'[1].is_sampled)
             => samples' = samples ]_vars

\* an analytic device returned from a circuit that is not sampled and still
\* holds the samples of an earlier execution
C3_Witness ==
    /\ ExecuteReturned
    /\ analytic
    /\ ~circuit[1].is_sampled
    /\ samples # None
    /\ circuit_hash = Some(2)

ExpectedCalls ==
    IF (~analytic) \/ circuit[1].is_sampled
    THEN << "check_validity", "apply", "generate_samples", "statistics" >>
    ELSE << "check_validity", "apply", "statistics" >>

\* C4: within one execute(circuit) the steps are check_validity, apply,
\* generate_samples (exactly once if the device is not analytic or the circuit
\* is sampled, not at all otherwise) and statistics, in this order.
C4_CallOrder ==
    /\ (pc # "idle" =>
          /\ Len(CallNames) <= Len(ExpectedCalls)
          /\ CallNames = SubSeq(ExpectedCalls, 1, Len(CallNames)))
    /\ (ExecuteEnded => CallNames = ExpectedCalls)

\* an analytic device sampled once because the circuit is sampled
C4_Witness ==
    /\ ExecuteReturned
    /\ analytic
    /\ circuit[1].is_sampled
    /\ Len(calls) = 4

\* C5: after reset() the device holds no samples and no circuit hash, and
\* reset changes none of wire count, shot count and analytic flag.
C5_ResetClears ==
    /\ [](ResetReturned => samples = None /\ circuit_hash = None)
    /\ [][ (outcome' # outcome /\ outcome'.kind = "return" /\ outcome'.method = "reset")
             => /\ num_wires' = num_wires
                /\ shots' = shots
                /\ analytic' = analytic ]_vars

\* reset() returned on a device whose last execution had generated samples
C5_Witness ==
    /\ ResetReturned
    /\ \E j \in 1..Len(calls) : calls[j].method = "generate_samples"
    /\ samples = None
    /\ circuit_hash = None

\* C10: the stored samples are absent or an array of exactly `shots` rows and
\* `num_wires` columns of bits.
C10_SamplesShape ==
    samples = None \/
        LET a == samples[1]
        IN  /\ Len(a) = shots
            /\ \A t \in 1..Len(a) :
                 /\ Len(a[t]) = num_wires
                 /\ \A j \in 1..Len(a[t]) : a[t][j] \in {0, 1}

\* a stored array of several shots on several wires, with different rows
C10_Witness ==
    /\ samples # None
    /\ shots > 1
    /\ num_wires > 1
    /\ samples[1][1] # samples[1][2]
    /\ \E j \in 1..num_wires : samples[1][1][j] = 1

\* check_validity rejected the circuit of the last execute()
ExecuteRejected ==
    /\ pc = "idle"
    /\ outcome.kind = "raise"
    /\ outcome.method = "execute"
    /\ outcome.error = "DeviceError"

\* C11: circuit_hash is set to circuit.hash after validation succeeds and
\* before apply is invoked, so apply sees the hash of the circuit being
\* executed; when check_validity rejects the circuit, execute leaves
\* circuit_hash and samples unchanged and invokes neither apply nor
\* generate_samples.
C11_HashSetBetweenValidationAndApply ==
    /\ [](/\ (pc = "apply" => circuit_hash = Some(circuit[1].hash))
          /\ (pc # "idle" \/ ExecuteEnded =>
                \A j \in 1..Len(calls) :
                    calls[j].method = "apply" =>
                        /\ calls[j].hash = Some(circuit[1].hash)
                        /\ j > 1
                        /\ calls[j - 1].method = "check_validity")
          /\ (ExecuteRejected => CallNames = << "check_validity" >>))
    /\ [][ (pc = "idle" /\ pc' = "idle" /\ outcome'.kind = "raise")
             => /\ circuit_hash' = circuit_hash
                /\ samples' = samples ]_vars
    /\ [][ (pc = "idle" /\ pc' = "set_hash")
             => /\ circuit_hash' = circuit_hash
                /\ samples' = samples ]_vars

\* a device that holds the hash and the samples of an earlier execution has
\* rejected a circuit with another hash
C11_Witness ==
    /\ ExecuteRejected
    /\ circuit_hash # None
    /\ circuit_hash # Some(circuit[1].hash)
    /\ samples # None

----------------------------------------------------------------------------
(* Properties of statistics() *)

IsStatisticsCall == call.method = "statistics"

\* positions of the observables whose return type is in `types`
Positions(obsv, types) == { j \in 1..Len(obsv) : obsv[j].return_type \in types }

First(S) == CHOOSE j \in S : \A q \in S : j <= q

\* the r-th smallest element of S
Nth(S, r) == CHOOSE j \in S : Cardinality({ q \in S : q < j }) = r - 1

Supported == { Expectation, Variance, Sample, Probability }

\* C6 as stated, on a device that holds samples: statistics fails with a
\* QuantumFunctionError naming the offending observable whenever a return type
\* is not one of Expectation, Variance, Sample, Probability (a missing return
\* type included); otherwise it returns one result per observable, in order.
C6_EveryOtherReturnTypeFails ==
    (IsStatisticsCall /\ samples # None) =>
        LET o == call.observables
            bad == (1..Len(o)) \ Positions(o, Supported)
        IN  /\ (bad # {} =>
                  /\ ret.kind = "raise"
                  /\ ret.error = "QuantumFunctionError"
                  /\ \E j \in bad : ret.name = o[j].name)
            /\ (ret.kind = "return" =>
                  /\ Len(ret.results) = Len(o)
                  /\ \A j \in 1..Len(o) : ret.results[j].obs = j)

\* C6 amended: statistics fails with a QuantumFunctionError naming the first
\* observable whose return type is neither one of the four nor missing, unless
\* the statistic of an earlier observable failed for want of samples; an
\* observable without return type is skipped; when statistics does not fail it
\* returns one result per observable that has a return type, in order.
C6_FirstUnsupportedReturnTypeFails ==
    IsStatisticsCall =>
        LET o == call.observables
            measured == Positions(o, Supported)
            bad == (1..Len(o)) \ Positions(o, Supported \cup { NoReturnType })
            starved == { j \in measured : reads_samples(o[j]) /\ samples = None }
            failing == bad \cup starved
        IN  IF failing = {}
            THEN /\ ret.kind = "return"
                 /\ Len(ret.results) = Cardinality(measured)
                 /\ \A r \in 1..Len(ret.results) :
                      /\ ret.results[r].obs = Nth(measured, r)
                      /\ ret.results[r].return_type = o[Nth(measured, r)].return_type
            ELSE /\ ret.kind = "raise"
                 /\ ret.name = o[First(failing)].name
                 /\ ret.error = IF First(failing) \in bad
                                THEN "QuantumFunctionError" ELSE "TypeError"

\* statistics skipped an observable without return type and raised for the
\* unsupported return type after it
C6_Witness ==
    /\ IsStatisticsCall
    /\ Len(call.observables) = 2
    /\ call.observables[1].return_type = NoReturnType
    /\ call.observables[2].return_type = "Counts"
    /\ ret.kind = "raise"
    /\ ret.error = "QuantumFunctionError"
    /\ ret.name = "QubitUnitary"

----------------------------------------------------------------------------
(* Properties of states_to_binary, estimate_probability and sample *)

\* C7: states_to_binary maps s in 0 .. 2^N - 1 to a row of exactly N bits whose
\* base-2 reading, column 0 most significant, recovers s.
C7_BinaryRoundTrip ==
    call.method = "states_to_binary" =>
        /\ Len(ret) = Len(call.samples)
        /\ \A t \in 1..Len(ret) :
             /\ Len(ret[t]) = num_wires
             /\ \A j \in 1..Len(ret[t]) : ret[t][j] \in {0, 1}
             /\ SumSeq([ j \in 1..Len(ret[t]) |-> ret[t][j] * Pow2(num_wires - j) ])
                  = call.samples[t]

\* the state 1 of a device of several wires, converted
C7_Witness ==
    /\ call.method = "states_to_binary"
    /\ num_wires > 1
    /\ call.samples[1] = 1
    /\ ret[1][num_wires] = 1
    /\ ret[1][1] = 0

\* the rows of smp whose bits on the wires W, in W's order, spell the index i
RowsEncoding(smp, W, i) ==
    { t \in 1..Len(smp) :
        \A j \in 1..Len(W) : smp[t][W[j] + 1] = IndexBit(i, j, Len(W)) }

\* C8: estimate_probability(W) has length 2^k; entry i is the number of stored
\* rows whose bits on W, read big-endian in the caller's order, encode i,
\* divided by the shot count; with exactly `shots` rows the entries sum to 1.
C8_EstimateCountsRows ==
    call.method = "estimate_probability" =>
        LET W == call.wires
            k == Len(W)
            smp == samples[1]
        IN  /\ Len(ret) = Pow2(k)
            /\ \A i \in 0..(Pow2(k) - 1) :
                 ret[i + 1] = << Cardinality(RowsEncoding(smp, W, i)), shots >>
            /\ (Len(smp) = shots =>
                  SumSeq([ i \in 1..Len(ret) |-> ret[i][1] ]) = shots)

\* an estimate on two wires given in decreasing order, from fewer rows than shots
C8_Witness ==
    /\ call.method = "estimate_probability"
    /\ Len(call.wires) = 2
    /\ call.wires[1] > call.wires[2]
    /\ Len(samples[1]) < shots
    /\ ret[2][1] > 0

\* C9: sample(observable) returns one eigenvalue per stored shot, in shot
\* order: 1 - 2b for a Pauli-type observable, b the shot's bit on its first
\* wire; eigvals[i] otherwise, i formed big-endian from the shot's bits on the
\* observable's wires; both agree for one wire with eigenvalues [1, -1].
C9_SampleEigenvalues ==
    call.method = "sample" =>
        LET o == call.observable
            W == o.wires
            k == Len(W)
            smp == samples[1]
            index(t) == SumSeq([ j \in 1..k |-> smp[t][W[j] + 1] * Pow2(k - j) ])
        IN  /\ Len(ret) = Len(smp)
            /\ \A t \in 1..Len(smp) :
                 /\ (o.name \in PauliNames => ret[t] = 1 - 2 * smp[t][W[1] + 1])
                 /\ (o.name \notin PauliNames => ret[t] = o.eigvals[index(t) + 1])
                 /\ ((k = 1 /\ o.eigvals = << 1, -1 >>)
                       => ret[t] = 1 - 2 * smp[t][W[1] + 1])

\* a Pauli observable sampled on a shot whose bit is 1
C9_Witness ==
    /\ call.method = "sample"
    /\ call.observable.name = "PauliX"
    /\ Len(samples[1]) > 1
    /\ samples[1][2][call.observable.wires[1] + 1] = 1
    /\ ret[2] = -1

====
